---- MODULE Spec2Model ----
(***************************************************************************)
(* miniMind: the in-memory entity store (MemStorage), the REST routes over *)
(* it (registerRoutes) and the content splitter of the feed dialogs.       *)
(*                                                                         *)
(* A JavaScript string is a sequence of one-character strings; an object   *)
(* (a request body, a stored entity) is a function from its keys to their  *)
(* values, so that a key may be absent.  Every async handler is cut at its *)
(* await points: one action per synchronous stretch of code.               *)
(***************************************************************************)
EXTENDS Integers, Sequences, FiniteSets, TLC

(***************************************************************************)
(* Bounds of the model.                                                    *)
(***************************************************************************)
MaxLen == 3          \* longest full_text enumerated exhaustively
MaxUsers == 2        \* users ever created (the admin included)
MaxConnections == 2  \* connections ever created
MaxFeeds == 2        \* feeds ever created
MaxClock == 1        \* the clock runs from 0 to MaxClock

(***************************************************************************)
(* Strings.                                                                *)
(***************************************************************************)
NL == "\n"
BS == "\\"
Whitespace == {" ", NL}

\* The separator placeholders of the dialogs and the literal separators.
SepNewline == <<BS, "n">>
SepBlankLine == <<BS, "n", BS, "n">>
SepComma == <<",">>
SepSemicolon == <<";">>
SepDashes == <<"-", "-", "-">>

RECURSIVE SplitMatchFrom(_, _, _, _)
\* String.prototype.split with a non-empty separator: p is where the current
\* segment starts, q where the separator is looked for next (both 1-based).
SplitMatchFrom(s, sep, p, q) ==
  IF q + Len(sep) - 1 > Len(s)
    THEN << SubSeq(s, p, Len(s)) >>
    ELSE IF SubSeq(s, q, q + Len(sep) - 1) = sep
           THEN << SubSeq(s, p, q - 1) >>
                  \o SplitMatchFrom(s, sep, q + Len(sep), q + Len(sep))
           ELSE SplitMatchFrom(s, sep, p, q + 1)

\* String.prototype.split(separator) for a string separator: the empty
\* separator splits into the single characters.
JsSplit(s, sep) ==
  IF sep = << >>
    THEN [i \in 1..Len(s) |-> << s[i] >>]
    ELSE SplitMatchFrom(s, sep, 1, 1)

RECURSIVE TrimStart(_)
TrimStart(s) ==
  IF s # << >> /\ Head(s) \in Whitespace THEN TrimStart(Tail(s)) ELSE s

RECURSIVE TrimEnd(_)
TrimEnd(s) ==
  IF s # << >> /\ s[Len(s)] \in Whitespace
    THEN TrimEnd(SubSeq(s, 1, Len(s) - 1))
    ELSE s

\* String.prototype.trim
Trim(s) == TrimEnd(TrimStart(s))

\* A map that leaves the items untrimmed.
MapTrim_None(items) == items

\* Array.prototype.map(item => item.trim())
MapTrim(items) == [i \in 1..Len(items) |-> Trim(items[i])]

\* A filter that keeps every item.
FilterNonEmpty_Keep(items) == items

\* Array.prototype.filter(Boolean) and filter(item => item.length > 0):
\* of strings, both keep exactly the non-empty ones.
FilterNonEmpty(items) == SelectSeq(items, LAMBDA item : Len(item) > 0)

\* A separator used as it is written.
ActualSeparator_Literal(separator) == separator

\* splitContent of the create-feed and edit-feed dialogs: actualSeparator.
ActualSeparator(separator) ==
  IF separator = SepBlankLine THEN << NL, NL >>
  ELSE IF separator = SepNewline THEN << NL >>
  ELSE separator

splitContent(text, separator) ==
  FilterNonEmpty(MapTrim(JsSplit(text, ActualSeparator(separator))))

\* Array.prototype.join
RECURSIVE JsJoin(_, _)
JsJoin(items, sep) ==
  IF items = << >> THEN << >>
  ELSE IF Len(items) = 1 THEN items[1]
  ELSE items[1] \o sep \o JsJoin(Tail(items), sep)

\* reconstructFullText of the edit-feed dialog: the feed's contents joined by
\* its separator, the placeholders resolved.
reconstructFullText(feed) ==
  JsJoin(feed.contents,
         ActualSeparator(IF feed.separator # << >> THEN feed.separator
                                                   ELSE SepNewline))

(***************************************************************************)
(* Objects and maps.                                                       *)
(***************************************************************************)
\* The value of a lookup that finds nothing.
Undefined == [undefined |-> TRUE]

\* Object spread { ...a, ...b }: the keys of both, b's value where both have one.
Spread(a, b) ==
  [k \in DOMAIN a \cup DOMAIN b |-> IF k \in DOMAIN b THEN b[k] ELSE a[k]]

\* An object without the keys of ks (rest destructuring, zod's key stripping).
Pick(obj, ks) == [k \in DOMAIN obj \cap ks |-> obj[k]]

MapGet(m, k) == IF k \in DOMAIN m THEN m[k] ELSE Undefined
MapSet(m, k, v) == [x \in DOMAIN m \cup {k} |-> IF x = k THEN v ELSE m[x]]
MapDelete(m, k) == [x \in DOMAIN m \ {k} |-> m[x]]

RECURSIVE Ascending(_)
\* The keys of a Map in insertion order: ids are handed out in increasing
\* order and an update keeps the entry's place, so this is ascending order.
Ascending(S) ==
  IF S = {} THEN << >>
  ELSE LET m == CHOOSE x \in S : \A y \in S : x <= y
       IN << m >> \o Ascending(S \ {m})

\* Array.from(map.values())
Values(m) == LET ks == Ascending(DOMAIN m) IN [i \in 1..Len(ks) |-> m[ks[i]]]

(***************************************************************************)
(* The schemas (shared/schema.ts).                                         *)
(***************************************************************************)
InsertConnectionKeys ==
  {"name", "url", "token", "status", "user_id", "icon", "projects"}
InsertConnectionRequired == {"name", "url", "token", "status", "user_id", "icon"}

InsertFeedKeys ==
  {"name", "description", "full_text", "contents", "completed_contents",
   "separator", "user_id", "connection_id", "frequency", "active"}
InsertFeedRequired ==
  {"name", "full_text", "contents", "completed_contents", "separator",
   "user_id", "connection_id", "frequency"}

\* insertConnectionSchema.parse / insertFeedSchema.parse: a ZodError when a
\* required key is missing, else the object stripped to the schema's keys.
\* A field declared text(...) must hold a string.
TextKeys ==
  {"name", "url", "token", "status", "icon", "projects", "description",
   "frequency"}

\* A JSON number sent where a string belongs.  It is written as a string of
\* its own so that the values of a field stay comparable with each other.
JsonNumber == "#42"
IsJsonString(v) == v # JsonNumber

ParseOk(obj, required) ==
  /\ required \subseteq DOMAIN obj
  /\ \A k \in TextKeys \cap DOMAIN obj : IsJsonString(obj[k])
ParseData(obj, keys) == Pick(obj, keys)

(***************************************************************************)
(* State.                                                                  *)
(***************************************************************************)
VARIABLES
  users,         \* MemStorage.users: id -> User
  connections,   \* MemStorage.connections: id -> Connection
  feeds,         \* MemStorage.feeds: id -> Feed
  userId,        \* MemStorage.userId, the next user id
  connectionId,  \* MemStorage.connectionId
  feedId,        \* MemStorage.feedId
  clock,         \* the time new Date() returns
  pc,            \* per request in flight: where its handler stands
  req,           \* per request: route, acting user, :id, body
  loc,           \* per request: the handler's local variables
  resp,          \* per request: the response sent
  formValues,    \* the feed dialog: the watched full_text and separator
  previewItems,  \* the feed dialog: the items of the preview
  effectPending, \* the feed dialog: the preview effect has yet to run
  modal          \* the add-connection dialog: its state and its requests

store == << users, connections, feeds, userId, connectionId, feedId >>
dialog == << formValues, previewItems, effectPending, modal >>
vars == << users, connections, feeds, userId, connectionId, feedId, clock,
           pc, req, loc, resp, formValues, previewItems, effectPending,
           modal >>

\* The requests that can be in flight at once.
Requests == {"r1", "r2"}

\* req.isAuthenticated() is false: no acting user.
NoUser == 0

NoReq == [route |-> "none"]
NoLoc == [none |-> TRUE]
NoResp == [status |-> 0]

(***************************************************************************)
(* MemStorage.                                                             *)
(***************************************************************************)
\* createUser: the stored User.
NewUser(insertUser, id, now) ==
  Spread(insertUser, [id |-> id, created_at |-> now])

\* A create that stores a status of its own.
NewConnection_Pending(insertConnection, id, now) ==
  Spread(insertConnection,
         [id |-> id, status |-> "Pending", created_at |-> now, updated_at |-> now])

\* createConnection: the stored Connection.
NewConnection(insertConnection, id, now) ==
  Spread(insertConnection, [id |-> id, created_at |-> now, updated_at |-> now])

\* createFeed: the stored Feed.
NewFeed(insertFeed, id, now) ==
  Spread(insertFeed,
         [id |-> id, num_sent |-> 0, created_at |-> now, updated_at |-> now])

\* A counter that is read but not advanced.
NextId_NoIncrement(counter) == [id |-> counter, counter |-> counter]

\* The id a create hands out and the counter it leaves (this.xId++).
NextId(counter) == [id |-> counter, counter |-> counter + 1]

\* An update that stores the patch in place of the record.
UpdatedFeed_Replace(existing, partialFeed, id, now) ==
  Spread(partialFeed, [id |-> id, updated_at |-> now])

\* updateConnection / updateFeed: the record stored for an existing one.
UpdatedConnection(existing, partialConnection, id, now) ==
  Spread(Spread(existing, partialConnection), [id |-> id, updated_at |-> now])

UpdatedFeed(existing, partialFeed, id, now) ==
  Spread(Spread(existing, partialFeed), [id |-> id, updated_at |-> now])

getConnectionsByUserId(userIdArg) ==
  SelectSeq(Values(connections), LAMBDA c : c.user_id = userIdArg)

getFeedsByUserId(userIdArg) ==
  SelectSeq(Values(feeds), LAMBDA f : f.user_id = userIdArg)

\* A filter on the wrong field, as in getFeedsByUserId.
getFeedsByConnectionId_ByUser(connectionIdArg) ==
  SelectSeq(Values(feeds), LAMBDA f : f.user_id = connectionIdArg)

getFeedsByConnectionId(connectionIdArg) ==
  SelectSeq(Values(feeds), LAMBDA f : f.connection_id = connectionIdArg)

(***************************************************************************)
(* Request inputs.                                                         *)
(***************************************************************************)
SampleText == << "a", ",", "b" >>

InsertUsers ==
  { [username |-> "alice", password |-> "pw", email |-> "a@x", name |-> "Alice"] }

ConnectionIds == 1..MaxConnections
FeedIds == 1..MaxFeeds

ConnectionBody ==
  [name |-> "TickTick", url |-> "https://t", token |-> "tok",
   status |-> "Connected", icon |-> "ticktick"]

\* POST /api/connections bodies: a complete one and one without its token.
ConnectionBodies ==
  { ConnectionBody, Pick(ConnectionBody, DOMAIN ConnectionBody \ {"token"}) }

\* PATCH /api/connections/:id bodies.
ConnectionPatches == { [status |-> "Disconnected"] }

FeedBody(c) ==
  [name |-> "feed", full_text |-> SampleText, separator |-> SepComma,
   connection_id |-> c, frequency |-> "Daily", active |-> TRUE]

\* The body of a feed on connection 1.
SampleFeedBody == FeedBody(1)

\* POST /api/feeds bodies: complete ones and one without its frequency.
FeedBodies ==
  { FeedBody(c) : c \in ConnectionIds }
    \cup { Pick(FeedBody(1), DOMAIN FeedBody(1) \ {"frequency"}) }

\* PATCH /api/feeds/:id bodies.
FeedPatches == { [connection_id |-> c] : c \in ConnectionIds }

(***************************************************************************)
(* registerRoutes: what the handlers compute.                              *)
(***************************************************************************)
\* A check that looks at the entity's presence only.
NotFoundFor_AbsentOnly(entity, user) == entity = Undefined

\* !entity || entity.user_id !== req.user.id
NotFoundFor(entity, user) ==
  IF entity = Undefined THEN TRUE ELSE entity.user_id # user

\* A JavaScript string in a condition: true unless absent or empty.
Truthy(obj, key) == key \in DOMAIN obj /\ obj[key] # << >>

\* full_text.split(separator).map(item => item.trim()).filter(Boolean) of the
\* feed routes; split(undefined) is the whole string as the one segment.
ServerContents(body) ==
  FilterNonEmpty(MapTrim(
    IF "separator" \in DOMAIN body
      THEN JsSplit(body.full_text, body.separator)
      ELSE << body.full_text >>))

\* A parse input that keeps the completed_contents of the body.
FeedParseInput_KeepCompleted(body, user) ==
  Spread([completed_contents |-> << >>],
         Spread(body, [contents |-> ServerContents(body), user_id |-> user]))

\* POST /api/feeds: the object handed to insertFeedSchema.parse.
FeedParseInput(body, user) ==
  Spread(body, [contents |-> ServerContents(body),
                completed_contents |-> << >>,
                user_id |-> user])

\* An update that splits again whenever a full_text is supplied.
FeedUpdateData_Always(body) ==
  IF "full_text" \in DOMAIN body
    THEN Spread(body, [contents |-> ServerContents(body)])
    ELSE body

\* PATCH /api/feeds/:id: updateData.
FeedUpdateData(body) ==
  IF Truthy(body, "full_text") /\ Truthy(body, "separator")
    THEN Spread(body, [contents |-> ServerContents(body)])
    ELSE body

\* POST /api/connections: the object handed to insertConnectionSchema.parse.
ConnectionParseInput(body, user) == Spread(body, [user_id |-> user])

\* The handler has sent its response (or thrown).
Done(r, request, response) ==
  /\ pc' = [pc EXCEPT ![r] = "done"]
  /\ req' = [req EXCEPT ![r] = request]
  /\ loc' = [loc EXCEPT ![r] = NoLoc]
  /\ resp' = [resp EXCEPT ![r] = response]

(***************************************************************************)
(* The feed card.                                                          *)
(***************************************************************************)
\* Math.round of num / den for a positive den: the nearest integer, a half
\* rounded up.
MathRound(num, den) == (2 * num + den) \div (2 * den)

\* FeedCard: completionRate.
completionRate(feed) ==
  IF Len(feed.contents) > 0
    THEN MathRound(feed.num_sent * 100, Len(feed.contents))
    ELSE 0

(***************************************************************************)
(* Initial state: the constructor has created the admin user.              *)
(***************************************************************************)
AdminUser ==
  [username |-> "admin", password |-> "admin", email |-> "admin@minimind.com",
   name |-> "Admin"]

\* The store after construction and no request in flight.
ServerInit ==
  /\ clock = 0
  /\ users = MapSet(<< >>, 1, NewUser(AdminUser, 1, 0))
  /\ userId = 2
  /\ connections = << >>
  /\ connectionId = 1
  /\ feeds = << >>
  /\ feedId = 1
  /\ pc = [r \in Requests |-> "idle"]
  /\ req = [r \in Requests |-> NoReq]
  /\ loc = [r \in Requests |-> NoLoc]
  /\ resp = [r \in Requests |-> NoResp]

\* The service types of the add-connection dialog (those whose test differs),
\* and no type selected (null).
ConnectionTypes == {"gmail", "ticktick"}
NoType == "none"

\* No connection test in flight.
NoTest == [type |-> NoType]

\* No create request under way.
NoCreate == [state |-> "no"]

\* The add-connection dialog as it is mounted: closed, no type selected,
\* testStatus "idle", no message, the form at its defaultValues, no test and
\* no create in flight.  sinceSelected is history: a test started since the
\* type was last selected has succeeded.
ModalInit ==
  [open |-> FALSE,
   selectedConnectionType |-> NoType,
   testStatus |-> "idle",
   testMessage |-> "",
   name |-> "",
   credentials |-> FALSE,
   test |-> NoTest,
   creating |-> NoCreate,
   sinceSelected |-> FALSE]

\* The create-feed dialog as it opens: its defaultValues, an empty preview.
Init ==
  /\ ServerInit
  /\ formValues = [full_text |-> << >>, separator |-> SepNewline]
  /\ previewItems = << >>
  /\ effectPending = TRUE
  /\ modal = ModalInit

(***************************************************************************)
(* Actions.                                                                *)
(***************************************************************************)
\* Time passes.
Tick ==
  /\ clock < MaxClock
  /\ clock' = clock + 1
  /\ UNCHANGED << store, pc, req, loc, resp, dialog >>

\* MemStorage.createUser, called when a user registers.
CreateUser(insertUser) ==
  /\ userId <= MaxUsers
  /\ LET n == NextId(userId)
     IN /\ users' = MapSet(users, n.id, NewUser(insertUser, n.id, clock))
        /\ userId' = n.counter
  /\ UNCHANGED << connections, feeds, connectionId, feedId, clock,
                  pc, req, loc, resp, dialog >>

\* A list route that answers callers who are not logged in.
Unauthenticated_OpenList(r, route) ==
  /\ pc[r] = "idle"
  /\ Done(r, [route |-> route, user |-> NoUser],
          IF route = "GET /api/feeds"
            THEN [status |-> 200, body |-> Values(feeds)]
            ELSE [status |-> 401])
  /\ UNCHANGED << store, clock, dialog >>

\* Any route without an authenticated user: 401 before anything else.
Unauthenticated(r, route) ==
  /\ pc[r] = "idle"
  /\ Done(r, [route |-> route, user |-> NoUser], [status |-> 401])
  /\ UNCHANGED << store, clock, dialog >>

\* POST /api/connections.
PostConnection(r, user, body) ==
  /\ pc[r] = "idle"
  /\ LET request == [route |-> "POST /api/connections", user |-> user, body |-> body]
         input == ConnectionParseInput(body, user)
     IN IF ~ParseOk(input, InsertConnectionRequired)
          THEN /\ Done(r, request, [status |-> 400])
               /\ UNCHANGED << store, clock, dialog >>
          ELSE /\ connectionId <= MaxConnections
               /\ LET n == NextId(connectionId)
                      connection ==
                        NewConnection(ParseData(input, InsertConnectionKeys),
                                      n.id, clock)
                  IN /\ connections' = MapSet(connections, n.id, connection)
                     /\ connectionId' = n.counter
                     /\ Done(r, request, [status |-> 201, body |-> connection])
               /\ UNCHANGED << users, feeds, userId, feedId, clock, dialog >>

\* POST /api/feeds.
PostFeed(r, user, body) ==
  /\ pc[r] = "idle"
  /\ LET request == [route |-> "POST /api/feeds", user |-> user, body |-> body]
     IN IF "full_text" \notin DOMAIN body
          THEN \* full_text.split of undefined: a TypeError, thrown on
               /\ Done(r, request, [status |-> 500, error |-> "TypeError"])
               /\ UNCHANGED << store, clock, dialog >>
          ELSE LET input == FeedParseInput(body, user)
               IN IF ~ParseOk(input, InsertFeedRequired)
                    THEN /\ Done(r, request, [status |-> 400])
                         /\ UNCHANGED << store, clock, dialog >>
                    ELSE /\ feedId <= MaxFeeds
                         /\ LET n == NextId(feedId)
                                feed == NewFeed(ParseData(input, InsertFeedKeys),
                                                n.id, clock)
                            IN /\ feeds' = MapSet(feeds, n.id, feed)
                               /\ feedId' = n.counter
                               /\ Done(r, request, [status |-> 201, body |-> feed])
                         /\ UNCHANGED << users, connections, userId,
                                         connectionId, clock, dialog >>

ConnectionRoutes ==
  {"GET /api/connections/:id", "PATCH /api/connections/:id",
   "DELETE /api/connections/:id"}
FeedRoutes ==
  {"GET /api/feeds/:id", "PATCH /api/feeds/:id", "PATCH /api/feeds/:id/toggle",
   "DELETE /api/feeds/:id"}
Routes ==
  ConnectionRoutes \cup FeedRoutes \cup {"POST /api/connections", "POST /api/feeds"}

\* What a handler on :id keeps of its lookup once the check has passed: only
\* the toggle reads existingFeed again (existingFeed.active).
Kept(route, existing) ==
  IF route = "PATCH /api/feeds/:id/toggle"
    THEN [active |-> existing.active] ELSE NoLoc

\* A route on :id from its start to the storage call it makes when the check
\* passes: const existing = await storage.getX(id), then the check.  A 404
\* and the answer of a GET are fixed by what the lookup returned, so the
\* continuation that only sends them is part of this step.
Lookup(r, user, route, id, body, existing) ==
  /\ pc[r] = "idle"
  /\ LET request == [route |-> route, user |-> user, id |-> id, body |-> body]
     IN IF NotFoundFor(existing, user)
          THEN /\ Done(r, request, [status |-> 404])
               /\ UNCHANGED << store, clock, dialog >>
          ELSE IF route \in {"GET /api/connections/:id", "GET /api/feeds/:id"}
            THEN /\ Done(r, request, [status |-> 200, body |-> existing])
                 /\ UNCHANGED << store, clock, dialog >>
            ELSE /\ pc' = [pc EXCEPT ![r] = "found"]
                 /\ req' = [req EXCEPT ![r] = request]
                 /\ loc' = [loc EXCEPT ![r] = Kept(route, existing)]
                 /\ UNCHANGED << store, clock, resp, dialog >>

\* The routes on /api/connections/:id: storage.getConnection(connectionId).
LookupConnection(r, user, route, id, body) ==
  Lookup(r, user, route, id, body, MapGet(connections, id))

\* The routes on /api/feeds/:id: storage.getFeed(feedId).
LookupFeed(r, user, route, id, body) ==
  Lookup(r, user, route, id, body, MapGet(feeds, id))

\* PATCH /api/connections/:id: storage.updateConnection(connectionId, req.body).
PatchConnection(r) ==
  /\ pc[r] = "found"
  /\ req[r].route = "PATCH /api/connections/:id"
  /\ LET id == req[r].id
     IN IF id \notin DOMAIN connections
          THEN \* updateConnection throws: Connection with id ... not found
               /\ Done(r, req[r], [status |-> 500, error |-> "not found"])
               /\ UNCHANGED << store, clock, dialog >>
          ELSE LET updated ==
                     UpdatedConnection(connections[id], req[r].body, id, clock)
               IN /\ connections' = MapSet(connections, id, updated)
                  /\ Done(r, req[r], [status |-> 200, body |-> updated])
                  /\ UNCHANGED << users, feeds, userId, connectionId, feedId,
                                  clock, dialog >>

\* An update that stores the patch also when the id is absent.
UpdateFeed_Upsert(r, partialFeed) ==
  LET id == req[r].id
      updated == UpdatedFeed(MapGet(feeds, id), partialFeed, id, clock)
  IN /\ feeds' = MapSet(feeds, id, updated)
     /\ Done(r, req[r], [status |-> 200, body |-> updated])
     /\ UNCHANGED << users, connections, userId, connectionId, feedId, clock, dialog >>

\* storage.updateFeed(feedId, partialFeed) and the response of its caller.
UpdateFeed(r, partialFeed) ==
  LET id == req[r].id
  IN IF id \notin DOMAIN feeds
       THEN \* updateFeed throws: Feed with id ... not found
            /\ Done(r, req[r], [status |-> 500, error |-> "not found"])
            /\ UNCHANGED << store, clock, dialog >>
       ELSE LET updated == UpdatedFeed(feeds[id], partialFeed, id, clock)
            IN /\ feeds' = MapSet(feeds, id, updated)
               /\ Done(r, req[r], [status |-> 200, body |-> updated])
               /\ UNCHANGED << users, connections, userId, connectionId,
                               feedId, clock, dialog >>

\* PATCH /api/feeds/:id.
PatchFeed(r) ==
  /\ pc[r] = "found"
  /\ req[r].route = "PATCH /api/feeds/:id"
  /\ UpdateFeed(r, FeedUpdateData(req[r].body))

\* A toggle that switches the feed off whatever it was.
ToggleFeed_Off(r) ==
  /\ pc[r] = "found"
  /\ req[r].route = "PATCH /api/feeds/:id/toggle"
  /\ UpdateFeed(r, [active |-> FALSE])

\* PATCH /api/feeds/:id/toggle.
ToggleFeed(r) ==
  /\ pc[r] = "found"
  /\ req[r].route = "PATCH /api/feeds/:id/toggle"
  /\ UpdateFeed(r, [active |-> ~loc[r].active])

\* DELETE /api/feeds/:id: storage.deleteFeed(feedId), then 204.
DeleteFeed(r) ==
  /\ pc[r] = "found"
  /\ req[r].route = "DELETE /api/feeds/:id"
  /\ feeds' = MapDelete(feeds, req[r].id)
  /\ Done(r, req[r], [status |-> 204])
  /\ UNCHANGED << users, connections, userId, connectionId, feedId, clock, dialog >>

\* The ids of the feeds deleteConnection is going to delete.
FeedsToDelete(id) ==
  LET fs == getFeedsByConnectionId(id) IN [i \in 1..Len(fs) |-> fs[i].id]

\* DELETE /api/connections/:id: storage.deleteConnection(connectionId) up to
\* its first await, const feedsToDelete = await this.getFeedsByConnectionId(id).
DeleteConnectionStart(r) ==
  /\ pc[r] = "found"
  /\ req[r].route = "DELETE /api/connections/:id"
  /\ pc' = [pc EXCEPT ![r] = "cascade"]
  /\ loc' = [loc EXCEPT ![r] = [feedsToDelete |-> FeedsToDelete(req[r].id),
                                i |-> 1]]
  /\ UNCHANGED << store, clock, req, resp, dialog >>

\* deleteConnection, one turn of its loop: await this.deleteFeed(feed.id).
DeleteConnectionFeed(r) ==
  /\ pc[r] = "cascade"
  /\ loc[r].i <= Len(loc[r].feedsToDelete)
  /\ feeds' = MapDelete(feeds, loc[r].feedsToDelete[loc[r].i])
  /\ loc' = [loc EXCEPT ![r].i = @ + 1]
  /\ UNCHANGED << users, connections, userId, connectionId, feedId, clock,
                  pc, req, resp, dialog >>

\* deleteConnection after its loop: this.connections.delete(id), then 204.
\* The finished handler still shows what it was called with and what it
\* had found to delete.
DeleteConnectionEnd(r) ==
  /\ pc[r] = "cascade"
  /\ loc[r].i > Len(loc[r].feedsToDelete)
  /\ connections' = MapDelete(connections, req[r].id)
  /\ pc' = [pc EXCEPT ![r] = "done"]
  /\ resp' = [resp EXCEPT ![r] = [status |-> 204]]
  /\ UNCHANGED << users, feeds, userId, connectionId, feedId, clock, req, loc, dialog >>

\* GET /api/connections: the acting user's connections.
ListConnections(r, user) ==
  /\ pc[r] = "idle"
  /\ Done(r, [route |-> "GET /api/connections", user |-> user],
          [status |-> 200, body |-> getConnectionsByUserId(user)])
  /\ UNCHANGED << store, clock, dialog >>

\* GET /api/feeds: the acting user's feeds.
ListFeeds(r, user) ==
  /\ pc[r] = "idle"
  /\ Done(r, [route |-> "GET /api/feeds", user |-> user],
          [status |-> 200, body |-> getFeedsByUserId(user)])
  /\ UNCHANGED << store, clock, dialog >>

\* feeds.filter(feed => feed.active).length
CountActive(fs) == Len(SelectSeq(fs, LAMBDA f : f.active))

\* feeds.reduce((sum, feed) => sum + feed.num_sent, 0)
RECURSIVE SumNumSent(_)
SumNumSent(fs) ==
  IF fs = << >> THEN 0 ELSE SumNumSent(SubSeq(fs, 1, Len(fs) - 1)) + fs[Len(fs)].num_sent

\* Stats that count everybody's entities.
StatsOf_Everyone(user, connectedApps) ==
  [activeFeeds |-> CountActive(Values(feeds)),
   connectedApps |-> connectedApps,
   contentDelivered |-> SumNumSent(Values(feeds))]

\* GET /api/stats: the object sent, from the feeds read now and the number
\* of connections read before.
StatsOf(user, connectedApps) ==
  [activeFeeds |-> CountActive(getFeedsByUserId(user)),
   connectedApps |-> connectedApps,
   contentDelivered |-> SumNumSent(getFeedsByUserId(user))]

\* GET /api/stats up to its second await: the connections are read.
StatsConnections(r, user) ==
  /\ pc[r] = "idle"
  /\ pc' = [pc EXCEPT ![r] = "stats"]
  /\ req' = [req EXCEPT ![r] = [route |-> "GET /api/stats", user |-> user]]
  /\ loc' = [loc EXCEPT ![r] =
               [connectedApps |-> Len(getConnectionsByUserId(user))]]
  /\ UNCHANGED << store, clock, resp, dialog >>

\* GET /api/stats from its second await: the feeds are read and the stats
\* are sent.
StatsFeeds(r) ==
  /\ pc[r] = "stats"
  /\ Done(r, req[r],
          [status |-> 200, body |-> StatsOf(req[r].user, loc[r].connectedApps)])
  /\ UNCHANGED << store, clock, dialog >>

\* The response has gone out; the request is over.
Close(r) ==
  /\ pc[r] = "done"
  /\ pc' = [pc EXCEPT ![r] = "idle"]
  /\ req' = [req EXCEPT ![r] = NoReq]
  /\ loc' = [loc EXCEPT ![r] = NoLoc]
  /\ resp' = [resp EXCEPT ![r] = NoResp]
  /\ UNCHANGED << store, clock, dialog >>

\* The body of a request that carries none.
NoBody == [none |-> TRUE]
BodiesOf(route, patches) ==
  IF route \in {"PATCH /api/connections/:id", "PATCH /api/feeds/:id"}
    THEN patches ELSE {NoBody}

(***************************************************************************)
(* Spec: two requests of the admin in flight at once, interleaved at their *)
(* awaits; users register meanwhile.                                       *)
(***************************************************************************)
Admin == 1
RacingConnectionRoutes == ConnectionRoutes
RacingFeedRoutes == FeedRoutes \ {"PATCH /api/feeds/:id/toggle"}

Next ==
  \/ \E insertUser \in InsertUsers : CreateUser(insertUser)
  \/ \E r \in Requests :
       \/ \E body \in ConnectionBodies : PostConnection(r, Admin, body)
       \/ \E body \in FeedBodies : PostFeed(r, Admin, body)
       \/ \E route \in RacingConnectionRoutes, id \in ConnectionIds :
            \E body \in BodiesOf(route, ConnectionPatches) :
              LookupConnection(r, Admin, route, id, body)
       \/ \E route \in RacingFeedRoutes, id \in FeedIds :
            \E body \in BodiesOf(route, FeedPatches) :
              LookupFeed(r, Admin, route, id, body)
       \/ PatchConnection(r)
       \/ PatchFeed(r)
       \/ DeleteFeed(r)
       \/ DeleteConnectionStart(r)
       \/ DeleteConnectionFeed(r)
       \/ DeleteConnectionEnd(r)
       \/ Close(r)

Spec == Init /\ [][Next]_vars

(***************************************************************************)
(* UpdateSpec: the admin's requests one at a time while time passes; the   *)
(* PATCH bodies also carry the server-assigned fields id and updated_at.   *)
(***************************************************************************)
UpdateConnectionPatches ==
  { [id |-> 9, updated_at |-> 7, status |-> "Disconnected"] }

UpdateFeedPatches ==
  { [name |-> "renamed"], [id |-> 9, updated_at |-> 7, frequency |-> "Weekly"] }

UpdateFeedRoutes == {"GET /api/feeds/:id", "PATCH /api/feeds/:id"}
UpdateConnectionRoutes == {"GET /api/connections/:id", "PATCH /api/connections/:id"}

UpdateNext ==
  \/ Tick
  \/ \E body \in ConnectionBodies : PostConnection("r1", Admin, body)
  \/ \E body \in {SampleFeedBody} : PostFeed("r1", Admin, body)
  \/ \E route \in UpdateConnectionRoutes, id \in ConnectionIds :
       \E body \in BodiesOf(route, UpdateConnectionPatches) :
         LookupConnection("r1", Admin, route, id, body)
  \/ \E route \in UpdateFeedRoutes, id \in FeedIds :
       \E body \in BodiesOf(route, UpdateFeedPatches) :
         LookupFeed("r1", Admin, route, id, body)
  \/ PatchConnection("r1")
  \/ PatchFeed("r1")
  \/ Close("r1")

UpdateSpec == Init /\ [][UpdateNext]_vars

(***************************************************************************)
(* TextSpec: the feed dialog holds any text and separator; its preview     *)
(* effect runs, and the admin's requests, one at a time, carry the         *)
(* dialog's values to POST /api/feeds and PATCH /api/feeds/:id.            *)
(***************************************************************************)
Alphabet == {"a", " ", NL, BS, "n", ","}

\* Every text of at most MaxLen characters, and the texts of the scenarios.
ScenarioTexts ==
  { << "a", ",", " ", "b", " ", ",", ",", "c" >>,
    << "x", NL, "y" >>,
    << "a", NL, NL, "b" >>,
    << "a", BS, "n", "b" >>,
    << "a", "-", "-", "-", "b" >>,
    << "a", ";", "b" >> }
Texts == UNION { [1..k -> Alphabet] : k \in 0..MaxLen } \cup ScenarioTexts

\* The separators the dialog offers.
Separators == {SepNewline, SepBlankLine, SepDashes, SepSemicolon, SepComma}

\* useEffect of the dialogs: the preview follows full_text and separator.
PreviewEffect ==
  /\ effectPending
  /\ effectPending' = FALSE
  /\ previewItems' =
       IF formValues.full_text # << >> /\ formValues.separator # << >>
         THEN splitContent(formValues.full_text, formValues.separator)
         ELSE << >>
  /\ UNCHANGED << store, clock, pc, req, loc, resp, formValues, modal >>

\* The body the dialogs send: the form's values with contents split by the
\* dialog and completed_contents.
DialogBody ==
  [name |-> "feed", full_text |-> formValues.full_text,
   separator |-> formValues.separator, connection_id |-> 1,
   frequency |-> "Daily", active |-> TRUE,
   contents |-> splitContent(formValues.full_text, formValues.separator),
   completed_contents |-> << >>]

\* The bodies of a POST /api/feeds: the dialog's, the same without its
\* separator, and a sample feed's.
TextFeedBodies ==
  { DialogBody, Pick(DialogBody, DOMAIN DialogBody \ {"separator", "contents"}),
    SampleFeedBody }

\* The bodies of a PATCH /api/feeds/:id: the dialog's, and just its
\* full_text and separator.
TextFeedPatches == { DialogBody, Pick(DialogBody, {"full_text", "separator"}) }

TextInit ==
  /\ ServerInit
  /\ formValues \in [full_text : Texts, separator : Separators]
  /\ previewItems = << >>
  /\ effectPending = TRUE
  /\ modal = ModalInit

TextNext ==
  \/ PreviewEffect
  \/ \E body \in TextFeedBodies : PostFeed("r1", Admin, body)
  \/ \E id \in FeedIds, body \in TextFeedPatches :
       LookupFeed("r1", Admin, "PATCH /api/feeds/:id", id, body)
  \/ PatchFeed("r1")
  \/ Close("r1")

TextSpec == TextInit /\ [][TextNext]_vars

(***************************************************************************)
(* ToggleSpec: the admin creates feeds and toggles them, one request at a  *)
(* time, while time passes.                                                *)
(***************************************************************************)
ToggleNext ==
  \/ Tick
  \/ PostConnection("r1", Admin, ConnectionBody)
  \/ PostFeed("r1", Admin, SampleFeedBody)
  \/ \E id \in FeedIds :
       LookupFeed("r1", Admin, "PATCH /api/feeds/:id/toggle", id, NoBody)
  \/ ToggleFeed("r1")
  \/ Close("r1")

ToggleSpec == Init /\ [][ToggleNext]_vars

(***************************************************************************)
(* PayloadSpec: the admin's requests, one at a time, with bodies that are  *)
(* well formed, that lack a field, that hold a value of the wrong type, or *)
(* that carry fields the schemas do not pick.                              *)
(***************************************************************************)
\* Bodies of POST /api/feeds.
PayloadFeedBodies ==
  { SampleFeedBody,
    Spread(SampleFeedBody, [num_sent |-> 2, completed_contents |-> << << "a" >> >>,
                         id |-> 9]),
    Pick(SampleFeedBody, DOMAIN SampleFeedBody \ {"frequency"}),
    Pick(SampleFeedBody, DOMAIN SampleFeedBody \ {"full_text"}),
    Spread(SampleFeedBody, [name |-> JsonNumber]) }

\* Bodies of PATCH /api/feeds/:id.
PayloadFeedPatches ==
  { [num_sent |-> 3],
    [name |-> JsonNumber],
    [full_text |-> << "c" >>],
    [separator |-> SepSemicolon],
    [full_text |-> << "c" >>, contents |-> << >>],
    [full_text |-> << "c", ",", "d", ",", "e" >>, separator |-> SepComma] }

\* Bodies of POST /api/connections.
PayloadConnectionBodies ==
  ConnectionBodies \cup { Spread(ConnectionBody, [name |-> JsonNumber]) }

\* Bodies of PATCH /api/connections/:id.
PayloadConnectionPatches == { [status |-> "Disconnected"], [name |-> JsonNumber] }

\* The entity the PATCH requests address.
Patched == 1

PayloadNext ==
  \/ \E body \in PayloadConnectionBodies : PostConnection("r1", Admin, body)
  \/ \E body \in PayloadFeedBodies : PostFeed("r1", Admin, body)
  \/ \E body \in PayloadConnectionPatches :
       LookupConnection("r1", Admin, "PATCH /api/connections/:id", Patched, body)
  \/ \E body \in PayloadFeedPatches :
       LookupFeed("r1", Admin, "PATCH /api/feeds/:id", Patched, body)
  \/ \E id \in FeedIds :
       LookupFeed("r1", Admin, "PATCH /api/feeds/:id/toggle", id, NoBody)
  \/ \E id \in FeedIds :
       LookupFeed("r1", Admin, "DELETE /api/feeds/:id", id, NoBody)
  \/ PatchConnection("r1")
  \/ PatchFeed("r1")
  \/ ToggleFeed("r1")
  \/ DeleteFeed("r1")
  \/ Close("r1")

PayloadSpec == Init /\ [][PayloadNext]_vars

(***************************************************************************)
(* AccessSpec: the admin and a registered user, and callers who are not    *)
(* logged in, use every route, one request at a time.                      *)
(***************************************************************************)
ListRoutes == {"GET /api/connections", "GET /api/feeds", "GET /api/stats"}
AllRoutes == Routes \cup ListRoutes

\* Bodies of PATCH /api/feeds/:id.
AccessFeedPatches == { [num_sent |-> 1] }

\* req.isAuthenticated(): the caller is logged in as a registered user.
Authenticated(user) == user \in DOMAIN users

UserIds == 1..MaxUsers

AccessNext ==
  \/ \E insertUser \in InsertUsers : CreateUser(insertUser)
  \/ \E route \in AllRoutes : Unauthenticated("r1", route)
  \/ \E user \in UserIds :
       Authenticated(user) /\ PostConnection("r1", user, ConnectionBody)
  \/ \E user \in UserIds :
       Authenticated(user) /\ PostFeed("r1", user, SampleFeedBody)
  \/ \E user \in UserIds, route \in ConnectionRoutes, id \in ConnectionIds :
       \E body \in BodiesOf(route, ConnectionPatches) :
         Authenticated(user) /\ LookupConnection("r1", user, route, id, body)
  \/ \E user \in UserIds, route \in FeedRoutes, id \in FeedIds :
       \E body \in BodiesOf(route, AccessFeedPatches) :
         Authenticated(user) /\ LookupFeed("r1", user, route, id, body)
  \/ \E user \in UserIds : Authenticated(user) /\ ListConnections("r1", user)
  \/ \E user \in UserIds : Authenticated(user) /\ ListFeeds("r1", user)
  \/ \E user \in UserIds : Authenticated(user) /\ StatsConnections("r1", user)
  \/ StatsFeeds("r1")
  \/ PatchConnection("r1")
  \/ PatchFeed("r1")
  \/ ToggleFeed("r1")
  \/ DeleteFeed("r1")
  \/ DeleteConnectionStart("r1")
  \/ DeleteConnectionFeed("r1")
  \/ DeleteConnectionEnd("r1")
  \/ Close("r1")

AccessSpec == Init /\ [][AccessNext]_vars

(***************************************************************************)
(* EditSpec: the admin creates a feed from the create dialog, with any     *)
(* text and separator, opens the edit dialog on it and saves it unedited;  *)
(* other clients patch the feed directly.                                  *)
(***************************************************************************)
\* Texts in which dashes stand next to the dashes of the separator.
DashTexts ==
  { << "-", " ", "-", "-", "-", "a" >>,
    << "a", "-", " ", "-", "-", "-", "b" >>,
    << "a", "-", "-", "-", "b" >> }

\* The edit dialog opens on the feed: useForm defaultValues.
OpenEditDialog(id) ==
  /\ id \in DOMAIN feeds
  /\ formValues # [full_text |-> reconstructFullText(feeds[id]),
                   separator |-> feeds[id].separator]
  /\ formValues' = [full_text |-> reconstructFullText(feeds[id]),
                    separator |-> feeds[id].separator]
  /\ previewItems' = << >>
  /\ effectPending' = TRUE
  /\ UNCHANGED << store, clock, pc, req, loc, resp, modal >>

\* An edit dialog that sends the contents as completed.
EditDialogBody_Completes(feed, values) ==
  [name |-> feed.name,
   description |-> IF "description" \in DOMAIN feed THEN feed.description ELSE "",
   full_text |-> values.full_text,
   separator |-> values.separator,
   frequency |-> feed.frequency,
   connection_id |-> feed.connection_id,
   active |-> feed.active,
   contents |-> splitContent(values.full_text, values.separator),
   completed_contents |-> splitContent(values.full_text, values.separator)]

\* updateFeedMutation of the edit dialog: the body it sends.
EditDialogBody(feed, values) ==
  [name |-> feed.name,
   description |-> IF "description" \in DOMAIN feed THEN feed.description ELSE "",
   full_text |-> values.full_text,
   separator |-> values.separator,
   frequency |-> feed.frequency,
   connection_id |-> feed.connection_id,
   active |-> feed.active,
   contents |-> splitContent(values.full_text, values.separator),
   completed_contents |-> feed.completed_contents]

\* The edit dialog is open on the feed and nothing in it has been edited.
Unedited(id) ==
  /\ id \in DOMAIN feeds
  /\ formValues = [full_text |-> reconstructFullText(feeds[id]),
                   separator |-> feeds[id].separator]

\* The edit dialog is saved as it opened.
SaveEditDialog(r, id) ==
  /\ Unedited(id)
  /\ LookupFeed(r, Admin, "PATCH /api/feeds/:id", id,
                EditDialogBody(feeds[id], formValues))

\* Bodies of PATCH /api/feeds/:id sent without the dialog: a list of
\* completed items, and the contents split as the dialogs split it.
EditFeedPatches ==
  { [completed_contents |-> << << "a" >> >>] }
    \cup { [contents |-> splitContent(feeds[id].full_text, feeds[id].separator)] :
             id \in DOMAIN feeds \cap {Patched} }

EditInit ==
  /\ ServerInit
  /\ formValues \in [full_text : Texts \cup DashTexts, separator : Separators]
  /\ previewItems = << >>
  /\ effectPending = TRUE
  /\ modal = ModalInit

EditNext ==
  \/ PreviewEffect
  \/ feeds = << >> /\ PostFeed("r1", Admin, DialogBody)
  \/ OpenEditDialog(Patched)
  \/ SaveEditDialog("r1", Patched)
  \/ \E body \in EditFeedPatches :
       LookupFeed("r1", Admin, "PATCH /api/feeds/:id", Patched, body)
  \/ LookupFeed("r1", Admin, "PATCH /api/feeds/:id/toggle", Patched, NoBody)
  \/ PatchFeed("r1")
  \/ ToggleFeed("r1")
  \/ Close("r1")

EditSpec == EditInit /\ [][EditNext]_vars

(***************************************************************************)
(* StatusSpec: the admin creates connections, patches their status and     *)
(* clicks the connection card's toggle, one request at a time.             *)
(***************************************************************************)
\* The two values of a connection's status.
Statuses == {"Connected", "Disconnected"}

\* Bodies of POST /api/connections: the dialog's, and one with another status.
StatusConnectionBodies ==
  { ConnectionBody, Spread(ConnectionBody, [status |-> "Pending"]) }

\* Bodies of PATCH /api/connections/:id sent without the card.
StatusConnectionPatches == { [status |-> "Paused"], [name |-> "renamed"] }

\* toggleConnectionMutation of the connection card: the body it sends.
CardToggleBody(connection) ==
  [status |-> IF connection.status = "Connected" THEN "Disconnected"
                                                  ELSE "Connected"]

\* The card of a stored connection is clicked.
CardToggle(r, id) ==
  /\ id \in DOMAIN connections
  /\ LookupConnection(r, Admin, "PATCH /api/connections/:id", id,
                      CardToggleBody(connections[id]))

StatusNext ==
  \/ Tick
  \/ \E body \in StatusConnectionBodies : PostConnection("r1", Admin, body)
  \/ \E id \in ConnectionIds : CardToggle("r1", id)
  \/ \E id \in ConnectionIds, body \in StatusConnectionPatches :
       LookupConnection("r1", Admin, "PATCH /api/connections/:id", id, body)
  \/ PatchConnection("r1")
  \/ Close("r1")

StatusSpec == Init /\ [][StatusNext]_vars

(***************************************************************************)
(* RaceSpec: two requests of the admin in flight on the same feed or       *)
(* connection: updates, toggles and deletes, interleaved at their awaits.  *)
(***************************************************************************)
\* The routes that update or delete the entity they address.
RaceFeedRoutes ==
  {"PATCH /api/feeds/:id", "PATCH /api/feeds/:id/toggle", "DELETE /api/feeds/:id"}
RaceConnectionRoutes ==
  {"PATCH /api/connections/:id", "DELETE /api/connections/:id"}

RaceNext ==
  \/ PostConnection("r1", Admin, ConnectionBody)
  \/ PostFeed("r1", Admin, SampleFeedBody)
  \/ \E r \in Requests :
       \/ \E route \in RaceConnectionRoutes :
            \E body \in BodiesOf(route, ConnectionPatches) :
              LookupConnection(r, Admin, route, Patched, body)
       \/ \E route \in RaceFeedRoutes :
            \E body \in BodiesOf(route, FeedPatches) :
              LookupFeed(r, Admin, route, Patched, body)
       \/ PatchConnection(r)
       \/ PatchFeed(r)
       \/ ToggleFeed(r)
       \/ DeleteFeed(r)
       \/ DeleteConnectionStart(r)
       \/ DeleteConnectionFeed(r)
       \/ DeleteConnectionEnd(r)
       \/ Close(r)

RaceSpec == Init /\ [][RaceNext]_vars

(***************************************************************************)
(* IdentitySpec: the admin's PATCH requests carry the identity fields id   *)
(* and user_id.                                                            *)
(***************************************************************************)
\* Bodies of PATCH /api/connections/:id and PATCH /api/feeds/:id.
IdentityPatches ==
  { [id |-> 9], [user_id |-> 2], [id |-> 9, user_id |-> 2, name |-> "renamed"] }

IdentityNext ==
  \/ Tick
  \/ PostConnection("r1", Admin, ConnectionBody)
  \/ PostFeed("r1", Admin, SampleFeedBody)
  \/ \E id \in ConnectionIds, body \in IdentityPatches :
       LookupConnection("r1", Admin, "PATCH /api/connections/:id", id, body)
  \/ \E id \in FeedIds, body \in IdentityPatches :
       LookupFeed("r1", Admin, "PATCH /api/feeds/:id", id, body)
  \/ PatchConnection("r1")
  \/ PatchFeed("r1")
  \/ Close("r1")

IdentitySpec == Init /\ [][IdentityNext]_vars

(***************************************************************************)
(* ModalSpec: the add-connection dialog.  The user opens and closes it,    *)
(* selects a service, goes back, edits the form, tests the connection and  *)
(* submits; the simulated test completes after its delay, whatever the     *)
(* dialog shows by then.                                                   *)
(***************************************************************************)
\* null, sent where the column is nullable.
JsonNull == "#null"

\* connectionServices: the entries the create request reads.
Service(t) ==
  IF t = "gmail"
    THEN [name |-> "Gmail", url |-> "https://mail.google.com",
          icon |-> "https://mail.google.com/favicon.ico"]
    ELSE [name |-> "TickTick", url |-> "https://api.ticktick.com/open/v1/project",
          icon |-> "https://ticktick.com/favicon.ico"]

\* createConnectionMutation.mutationFn: the body of POST /api/connections.
ModalConnectionData(t, name) ==
  [name |-> IF name # "" THEN name ELSE Service(t).name,
   url |-> Service(t).url,
   token |-> "mock_token_for_" \o t,
   status |-> "Connected",
   icon |-> Service(t).icon,
   projects |-> IF t = "ticktick" THEN "[{id, name}]" ELSE JsonNull]

\* Everything but the add-connection dialog.
outsideModal ==
  << store, clock, pc, req, loc, resp, formValues, previewItems, effectPending >>

\* resetForm: form.reset(), no type selected, testStatus idle, no message.
resetForm(m) ==
  [m EXCEPT !.name = "", !.credentials = FALSE,
            !.selectedConnectionType = NoType,
            !.testStatus = "idle", !.testMessage = "",
            !.sinceSelected = FALSE]

\* The parent opens the dialog.
OpenModal ==
  /\ ~modal.open
  /\ modal' = [modal EXCEPT !.open = TRUE]
  /\ UNCHANGED outsideModal

\* Dialog onOpenChange(false): resetForm, then the parent closes it.
CloseModal ==
  /\ modal.open
  /\ modal' = [resetForm(modal) EXCEPT !.open = FALSE]
  /\ UNCHANGED outsideModal

\* A service card is clicked: setSelectedConnectionType(service.id).
SelectService(t) ==
  /\ modal.open
  /\ modal.selectedConnectionType = NoType
  /\ modal' = [modal EXCEPT !.selectedConnectionType = t, !.sinceSelected = FALSE]
  /\ UNCHANGED outsideModal

\* The Back button: setSelectedConnectionType(null), nothing else.
Back ==
  /\ modal.open
  /\ modal.selectedConnectionType # NoType
  /\ modal' = [modal EXCEPT !.selectedConnectionType = NoType,
                            !.sinceSelected = FALSE]
  /\ UNCHANGED outsideModal

\* The user edits the name field, or the credentials of Gmail.
EditField ==
  /\ modal.open
  /\ modal.selectedConnectionType # NoType
  /\ \/ \E name \in {"", "My service"} :
          /\ name # modal.name
          /\ modal' = [modal EXCEPT !.name = name]
     \/ /\ modal.selectedConnectionType = "gmail"
        /\ modal' = [modal EXCEPT !.credentials = ~modal.credentials]
  /\ UNCHANGED outsideModal

\* testConnection up to its await: setTestStatus("testing") and the mutation
\* started with the type selected and the form values of this moment.  The
\* button is disabled while testConnectionMutation.isPending.
TestConnection ==
  /\ modal.open
  /\ modal.selectedConnectionType # NoType
  /\ modal.test = NoTest
  /\ modal' = [modal EXCEPT
                 !.testStatus = "testing",
                 !.test = [type |-> modal.selectedConnectionType,
                           credentials |-> modal.credentials]]
  /\ UNCHANGED outsideModal

\* The test's delay is over: the mutation settles and testConnection sets
\* the status and the message.
TestCompletes ==
  /\ modal.test # NoTest
  /\ LET fails == modal.test.type = "gmail" /\ ~modal.test.credentials
     IN modal' =
          [modal EXCEPT
             !.test = NoTest,
             !.testStatus = IF fails THEN "error" ELSE "success",
             !.testMessage =
               IF fails THEN "Invalid Gmail credentials."
               ELSE "Successfully connected to " \o modal.test.type,
             !.sinceSelected =
               IF ~fails /\ modal.test.type = modal.selectedConnectionType
                 THEN TRUE ELSE modal.sinceSelected]
  /\ UNCHANGED outsideModal

\* The form is submitted with a valid name: onSubmit.  Without a successful
\* test it only shows a toast; else createConnectionMutation.mutate(data).
Submit ==
  /\ modal.open
  /\ modal.selectedConnectionType # NoType
  /\ modal.name # ""
  /\ modal.creating = NoCreate
  /\ modal.testStatus = "success"
  /\ modal' = [modal EXCEPT
                 !.creating =
                   [state |-> "mutating",
                    type |-> modal.selectedConnectionType,
                    body |-> ModalConnectionData(modal.selectedConnectionType,
                                                 modal.name)]]
  /\ UNCHANGED outsideModal

\* apiRequest("POST", "/api/connections", connectionData) reaches the server.
SendCreate ==
  /\ modal.creating # NoCreate
  /\ PostConnection("r1", Admin, modal.creating.body)

\* The response arrives; onSuccess resets the form and closes the dialog.
CreateSettled ==
  /\ modal.creating # NoCreate
  /\ pc["r1"] = "done"
  /\ modal' = IF resp["r1"].status = 201
                THEN [resetForm(modal) EXCEPT !.open = FALSE, !.creating = NoCreate]
                ELSE [modal EXCEPT !.creating = NoCreate]
  /\ pc' = [pc EXCEPT !["r1"] = "idle"]
  /\ req' = [req EXCEPT !["r1"] = NoReq]
  /\ loc' = [loc EXCEPT !["r1"] = NoLoc]
  /\ resp' = [resp EXCEPT !["r1"] = NoResp]
  /\ UNCHANGED << store, clock, formValues, previewItems, effectPending >>

ModalNext ==
  \/ OpenModal
  \/ CloseModal
  \/ \E t \in ConnectionTypes : SelectService(t)
  \/ Back
  \/ EditField
  \/ TestConnection
  \/ TestCompletes
  \/ Submit
  \/ SendCreate
  \/ CreateSettled

ModalSpec == Init /\ [][ModalNext]_vars

(***************************************************************************)
(* Properties.                                                             *)
(***************************************************************************)
Range(seq) == { seq[i] : i \in 1..Len(seq) }

\* The request r takes this step.
Steps(r) == pc'[r] # pc[r] \/ loc'[r] # loc[r]

FeedsOfConnection(c) == { id \in DOMAIN feeds : feeds[id].connection_id = c }

\* C1: deleteConnection(c), called on a store where N feeds have
\* connection_id = c, sets out to delete exactly those N feeds; when it
\* completes none of them and not c is stored (a lookup returns undefined)
\* and the answer is 204; and no step of it changes a feed that is not one of
\* the N or a connection other than c.
C1_DeleteConnectionCascade ==
  [][\A r \in Requests :
       /\ (pc[r] = "found" /\ pc'[r] = "cascade")
            => Range(loc'[r].feedsToDelete) = FeedsOfConnection(req[r].id)
       /\ (pc[r] = "cascade" /\ Steps(r))
            => /\ \A id \in DOMAIN feeds \ Range(loc[r].feedsToDelete) :
                    MapGet(feeds', id) = feeds[id]
               /\ \A k \in DOMAIN connections \ {req[r].id} :
                    MapGet(connections', k) = connections[k]
               /\ DOMAIN feeds' \subseteq DOMAIN feeds
               /\ DOMAIN connections' \subseteq DOMAIN connections
       /\ (pc[r] = "cascade" /\ pc'[r] = "done")
            => /\ MapGet(connections', req[r].id) = Undefined
               /\ \A id \in Range(loc[r].feedsToDelete) :
                    MapGet(feeds', id) = Undefined
               /\ resp'[r].status = 204
    ]_vars

\* A cascade over two feeds has completed.
C1_Witness ==
  \E r \in Requests :
    /\ pc[r] = "done"
    /\ req[r].route = "DELETE /api/connections/:id"
    /\ resp[r].status = 204
    /\ Len(loc[r].feedsToDelete) = 2
    /\ feeds = << >>

\* Some other request is about to read the store.
Observed(r) == \E q \in Requests \ {r} : pc[q] = "idle"

\* C2: the cascade is atomic towards other requests.  While the cascade of
\* c runs, no other request sees feeds of c already deleted while c is still
\* stored; and at the moment the cascade finishes c is gone and no feed with
\* connection_id = c is stored (so none is seen with c gone).
C2_CascadeAtomic ==
  [][\A r \in Requests :
       /\ (pc[r] = "cascade" /\ Observed(r) /\ req[r].id \in DOMAIN connections)
            => loc[r].i = 1
       /\ (pc[r] = "cascade" /\ pc'[r] = "done")
            => /\ req[r].id \notin DOMAIN connections'
               /\ \A id \in DOMAIN feeds' :
                    feeds'[id].connection_id # req[r].id
    ]_vars

\* C7: ids are handed out in strictly increasing order.  No counter ever
\* decreases, and an entity that appears in a map has an id that is at least
\* the counter before the step and below the counter after it: so it is
\* above every id handed out before, deleted or not.
C7_IdsNeverReused ==
  [][/\ userId' >= userId
     /\ connectionId' >= connectionId
     /\ feedId' >= feedId
     /\ \A k \in DOMAIN users' \ DOMAIN users : userId <= k /\ k < userId'
     /\ \A k \in DOMAIN connections' \ DOMAIN connections :
          connectionId <= k /\ k < connectionId'
     /\ \A k \in DOMAIN feeds' \ DOMAIN feeds : feedId <= k /\ k < feedId'
     /\ \A r \in Requests :
          (pc'[r] = "done" /\ pc[r] = "idle" /\ resp'[r].status = 201)
            => resp'[r].body.id \in (DOMAIN connections' \ DOMAIN connections)
                                      \cup (DOMAIN feeds' \ DOMAIN feeds)
    ]_vars

\* A feed was created, deleted, and another was created: it has a new id.
C7_Witness ==
  /\ feedId = 3
  /\ DOMAIN feeds = {2}
  /\ userId = 3

UpdateRoutes == {"PATCH /api/connections/:id", "PATCH /api/feeds/:id"}

\* The update of r finds its id gone from the map.
UpdateOfAbsent(r) ==
  /\ pc[r] = "found"
  /\ req[r].route \in UpdateRoutes
  /\ Steps(r)
  /\ IF req[r].route = "PATCH /api/feeds/:id"
       THEN req[r].id \notin DOMAIN feeds
       ELSE req[r].id \notin DOMAIN connections

\* C9: updateFeed and updateConnection on an id that is not stored throw a
\* not-found error and leave the maps and the id counters as they were.
C9_UpdateAbsentFails ==
  [][\A r \in Requests :
       UpdateOfAbsent(r) =>
         /\ store' = store
         /\ "error" \in DOMAIN resp'[r]
         /\ resp'[r].error = "not found"
    ]_vars

\* An update has failed on a feed deleted since the handler looked it up.
C9_Witness ==
  \E r \in Requests :
    /\ pc[r] = "done"
    /\ req[r].route = "PATCH /api/feeds/:id"
    /\ "error" \in DOMAIN resp[r]
    /\ feedId > 1
    /\ feeds = << >>

\* C10: deleteFeed and deleteConnection on an id that is not stored change
\* nothing: deleteFeed leaves the store as it is, and deleteConnection finds
\* no feed to delete and leaves the store as it is.
C10_DeleteAbsentNoOp ==
  [][\A r \in Requests :
       /\ (pc[r] = "found" /\ Steps(r) /\ req[r].route = "DELETE /api/feeds/:id"
             /\ req[r].id \notin DOMAIN feeds)
            => (store' = store /\ resp'[r].status = 204)
       /\ (pc[r] = "found" /\ Steps(r)
             /\ req[r].route = "DELETE /api/connections/:id"
             /\ req[r].id \notin DOMAIN connections)
            => (store' = store /\ loc'[r].feedsToDelete = << >>)
    ]_vars

\* The patch the update of r hands to the store, and the map it updates.
PatchOf(r) ==
  IF req[r].route = "PATCH /api/feeds/:id"
    THEN FeedUpdateData(req[r].body)
    ELSE req[r].body

\* The update of r finds its id in the map.
UpdateOfStored(r) ==
  /\ pc[r] = "found"
  /\ req[r].route \in UpdateRoutes
  /\ Steps(r)
  /\ IF req[r].route = "PATCH /api/feeds/:id"
       THEN req[r].id \in DOMAIN feeds
       ELSE req[r].id \in DOMAIN connections

Before(r) ==
  IF req[r].route = "PATCH /api/feeds/:id"
    THEN feeds[req[r].id] ELSE connections[req[r].id]

After(r) ==
  IF req[r].route = "PATCH /api/feeds/:id"
    THEN feeds'[req[r].id] ELSE connections'[req[r].id]

\* Every stored entity but the one r updates is as it was.
OthersUnchanged(r) ==
  /\ users' = users
  /\ << userId, connectionId, feedId >>' = << userId, connectionId, feedId >>
  /\ DOMAIN feeds' = DOMAIN feeds
  /\ DOMAIN connections' = DOMAIN connections
  /\ \A id \in DOMAIN feeds :
       (req[r].route = "PATCH /api/feeds/:id" /\ id = req[r].id)
         \/ feeds'[id] = feeds[id]
  /\ \A id \in DOMAIN connections :
       (req[r].route = "PATCH /api/connections/:id" /\ id = req[r].id)
         \/ connections'[id] = connections[id]

ServerAssigned == {"id", "updated_at"}

\* C8 as stated: after updateFeed / updateConnection on a stored id every
\* field present in the patch has the patch's value, every absent field its
\* previous value, updated_at is the current time, nothing else changes.
C8_UpdateMergesAsStated ==
  [][\A r \in Requests :
       UpdateOfStored(r) =>
         /\ \A k \in DOMAIN PatchOf(r) \ {"updated_at"} :
              After(r)[k] = PatchOf(r)[k]
         /\ \A k \in DOMAIN Before(r) \ (DOMAIN PatchOf(r) \cup {"updated_at"}) :
              After(r)[k] = Before(r)[k]
         /\ After(r).updated_at = clock
         /\ OthersUnchanged(r)
    ]_vars

\* C8, amended: every field present in the patch other than id and
\* updated_at has the patch's value, every other field absent from the patch
\* its previous value, id is the id updated, updated_at the current time;
\* the record has no other field and nothing else changes.
C8_UpdateMerges ==
  [][\A r \in Requests :
       UpdateOfStored(r) =>
         /\ DOMAIN After(r) = DOMAIN Before(r) \cup DOMAIN PatchOf(r)
         /\ \A k \in DOMAIN PatchOf(r) \ ServerAssigned :
              After(r)[k] = PatchOf(r)[k]
         /\ \A k \in DOMAIN Before(r) \ (DOMAIN PatchOf(r) \cup ServerAssigned) :
              After(r)[k] = Before(r)[k]
         /\ After(r).id = req[r].id
         /\ After(r).updated_at = clock
         /\ OthersUnchanged(r)
         /\ resp'[r] = [status |-> 200, body |-> After(r)]
    ]_vars

\* A feed created at time 0 has been renamed at time 1 by a patch that
\* leaves its other fields alone, while another feed is stored.
C8_Witness ==
  /\ pc["r1"] = "done"
  /\ req["r1"].route = "PATCH /api/feeds/:id"
  /\ resp["r1"].status = 200
  /\ resp["r1"].body.name = "renamed"
  /\ resp["r1"].body.created_at = 0
  /\ resp["r1"].body.updated_at = 1
  /\ Cardinality(DOMAIN feeds) = 2

(***************************************************************************)
(* The Content Splitter, stated apart from the code that computes it.      *)
(***************************************************************************)
Min(S) == CHOOSE x \in S : \A y \in S : x <= y
Max(S) == CHOOSE x \in S : \A y \in S : x >= y

\* The separator a written separator stands for.
Resolved(separator) ==
  CASE separator = << BS, "n" >> -> << NL >>
    [] separator = << BS, "n", BS, "n" >> -> << NL, NL >>
    [] OTHER -> separator

OccursAt(text, sep, q) ==
  q + Len(sep) - 1 <= Len(text) /\ SubSeq(text, q, q + Len(sep) - 1) = sep

\* Where the separators that split the text start: an occurrence that does
\* not overlap the separator before it, scanning from the left.
CutsOf(text, sep) ==
  LET cut[q \in 0..Len(text)] ==
        IF q = 0 THEN {}
        ELSE IF OccursAt(text, sep, q)
                  /\ \A c \in cut[q - 1] : c + Len(sep) <= q
               THEN cut[q - 1] \cup {q}
               ELSE cut[q - 1]
  IN cut[Len(text)]

\* The text between the cuts.
SegmentsOf(text, sep) ==
  LET cuts == CutsOf(text, sep)
      starts == {1} \cup { c + Len(sep) : c \in cuts }
      EndOf(b) == Min({ c - 1 : c \in { d \in cuts : d >= b } } \cup {Len(text)})
      order == Ascending(starts)
  IN [i \in 1..Len(order) |-> SubSeq(text, order[i], EndOf(order[i]))]

\* A string without the white space at its ends.
Trimmed(s) ==
  LET solid == { i \in 1..Len(s) : s[i] \notin Whitespace }
  IN IF solid = {} THEN << >> ELSE SubSeq(s, Min(solid), Max(solid))

\* The trimmed segments that are not empty, in their order.
ItemsOf(text, separator) ==
  LET segs == SegmentsOf(text, Resolved(separator))
      kept == { i \in 1..Len(segs) : Trimmed(segs[i]) # << >> }
      order == Ascending(kept)
  IN [i \in 1..Len(order) |-> Trimmed(segs[order[i]])]

Blank(s) == \A i \in 1..Len(s) : s[i] \in Whitespace

\* POST /api/feeds has stored a feed for r.
Created(r) ==
  /\ pc[r] = "done"
  /\ req[r].route = "POST /api/feeds"
  /\ resp[r].status = 201

\* PATCH /api/feeds/:id with full_text and separator in its body has updated
\* a feed for r.
Resplit(r) ==
  /\ pc[r] = "done"
  /\ req[r].route = "PATCH /api/feeds/:id"
  /\ resp[r].status = 200
  /\ {"full_text", "separator"} \subseteq DOMAIN req[r].body

\* C3: right after POST /api/feeds, and right after a PATCH /api/feeds/:id
\* that supplies full_text and separator, the feed's contents is the split
\* of its full_text on its resolved separator, trimmed, empty items dropped.
C3_ContentsIsSplit ==
  \A r \in Requests :
    (Created(r) \/ Resplit(r)) =>
      /\ resp[r].body.contents
           = ItemsOf(resp[r].body.full_text, resp[r].body.separator)
      /\ feeds[resp[r].body.id] = resp[r].body

\* C4: no list the split produces, in the feed routes or in the dialog,
\* holds an empty string or one of white space only.
C4_NoBlankItems ==
  /\ \A i \in 1..Len(previewItems) : ~Blank(previewItems[i])
  /\ \A id \in DOMAIN feeds :
       \A i \in 1..Len(feeds[id].contents) : ~Blank(feeds[id].contents[i])
  /\ \A r \in Requests :
       (pc[r] # "idle" /\ "contents" \in DOMAIN req[r].body) =>
         \A i \in 1..Len(req[r].body.contents) : ~Blank(req[r].body.contents[i])

\* The dialog has split a text with white space around a separator, and
\* the server has stored a feed split from it.
C4_Witness ==
  /\ formValues.full_text = << "a", " ", "," >>
  /\ formValues.separator = SepComma
  /\ ~effectPending
  /\ previewItems = << << "a" >> >>
  /\ Created("r1")
  /\ resp["r1"].body.full_text = formValues.full_text
  /\ resp["r1"].body.contents = << << "a" >> >>

\* C5: splitContent resolves the newline placeholder to one newline and the
\* blank-line placeholder to two, uses any other separator as written, and
\* returns the text between the separators, trimmed, empty items dropped, in
\* order; 'a, b ,,c' split on ',' is a, b, c.
C5_SplitContent ==
  ~effectPending =>
    /\ previewItems = ItemsOf(formValues.full_text, formValues.separator)
    /\ (formValues.full_text = << "a", ",", " ", "b", " ", ",", ",", "c" >>
          /\ formValues.separator = SepComma)
         => previewItems = << << "a" >>, << "b" >>, << "c" >> >>
    /\ (formValues.full_text = << "x", NL, "y" >>
          /\ formValues.separator = SepNewline)
         => previewItems = << << "x" >>, << "y" >> >>
    /\ (formValues.full_text = << "a", NL, NL, "b" >>
          /\ formValues.separator = SepBlankLine)
         => previewItems = << << "a" >>, << "b" >> >>
    /\ (formValues.full_text = << "a", BS, "n", "b" >>
          /\ formValues.separator = SepNewline)
         => previewItems = << formValues.full_text >>

\* The dialog has split 'a, b ,,c' on the comma.
C5_Witness ==
  /\ ~effectPending
  /\ formValues.full_text = << "a", ",", " ", "b", " ", ",", ",", "c" >>
  /\ formValues.separator = SepComma
  /\ Len(previewItems) = 3

\* POST /api/feeds has answered r.
Posted(r) == pc[r] = "done" /\ req[r].route = "POST /api/feeds"

ToggleOfStored(r) ==
  /\ pc[r] = "found"
  /\ req[r].route = "PATCH /api/feeds/:id/toggle"
  /\ Steps(r)
  /\ req[r].id \in DOMAIN feeds

\* C11: a toggle by the feed's owner stores the negation of the feed's active
\* and the current time as updated_at, leaves every other field of the feed
\* and every other entity as it was, and answers with the feed.
C11_ToggleFlipsActiveOnly ==
  [][ \A r \in Requests :
        ToggleOfStored(r) =>
          LET id == req[r].id
          IN /\ feeds[id].user_id = req[r].user
             /\ DOMAIN feeds'[id] = DOMAIN feeds[id]
             /\ feeds'[id].active = ~feeds[id].active
             /\ feeds'[id].updated_at = clock
             /\ \A k \in DOMAIN feeds[id] \ {"active", "updated_at"} :
                  feeds'[id][k] = feeds[id][k]
             /\ \A other \in DOMAIN feeds \ {id} : feeds'[other] = feeds[other]
             /\ DOMAIN feeds' = DOMAIN feeds
             /\ << users, connections, userId, connectionId, feedId >>'
                  = << users, connections, userId, connectionId, feedId >>
             /\ resp'[r] = [status |-> 200, body |-> feeds'[id]]
    ]_vars

\* A feed created at time 0 has been toggled off at time 1, next to another
\* feed that is still as it was created.
C11_Witness ==
  /\ pc["r1"] = "done"
  /\ req["r1"].route = "PATCH /api/feeds/:id/toggle"
  /\ resp["r1"].status = 200
  /\ DOMAIN feeds = {1, 2}
  /\ feeds[1].active = FALSE
  /\ feeds[1].created_at = 0
  /\ feeds[1].updated_at = 1
  /\ feeds[1].contents = << << "a" >>, << "b" >> >>
  /\ feeds[2].active = TRUE

\* C12: every stored feed has 0 <= num_sent <= length(contents), after any
\* feed create, update with any body, toggle and delete.
C12_NumSentBounded ==
  \A id \in DOMAIN feeds :
    /\ 0 <= feeds[id].num_sent
    /\ feeds[id].num_sent <= Len(feeds[id].contents)

\* C13: for every stored feed the completion percentage of the feed card is
\* an integer from 0 to 100, is 0 when contents is empty, and for the feed's
\* contents is not less than it is for any smaller num_sent.
C13_CompletionPercent ==
  \A id \in DOMAIN feeds :
    /\ completionRate(feeds[id]) \in 0..100
    /\ feeds[id].contents = << >> => completionRate(feeds[id]) = 0
    /\ \A n \in 0..feeds[id].num_sent :
         completionRate([feeds[id] EXCEPT !.num_sent = n])
           <= completionRate(feeds[id])

\* C14: a feed stored by a create request has num_sent = 0 and
\* completed_contents = [] right after its creation, and the id the store
\* assigned, whatever num_sent, completed_contents or id the body carries.
C14_CreateDefaults ==
  \A r \in Requests :
    Created(r) =>
      /\ resp[r].body.num_sent = 0
      /\ resp[r].body.completed_contents = << >>
      /\ resp[r].body.id = feedId - 1
      /\ resp[r].body.id \in DOMAIN feeds
      /\ feeds[resp[r].body.id] = resp[r].body

\* A feed has been created from a body that carries num_sent, a non-empty
\* completed_contents and an id of its own.
C14_Witness ==
  /\ Created("r1")
  /\ {"num_sent", "completed_contents", "id"} \subseteq DOMAIN req["r1"].body
  /\ req["r1"].body.num_sent = 2
  /\ req["r1"].body.completed_contents # << >>
  /\ req["r1"].body.id = 9
  /\ resp["r1"].body.id = 2

\* The entity a request on :id addresses, as the store holds it.
Addressed(route, id) ==
  IF route \in ConnectionRoutes THEN MapGet(connections, id) ELSE MapGet(feeds, id)

\* The request r starts on a route on :id.
StartsById(r) ==
  /\ pc[r] = "idle"
  /\ pc'[r] # "idle"
  /\ req'[r].route \in ConnectionRoutes \cup FeedRoutes
  /\ req'[r].user # NoUser

\* C15: a GET, PATCH, toggle or DELETE on a feed, or a GET, PATCH or DELETE
\* on a connection, that exists with another user's user_id is answered as
\* one on an id that is not stored, with the 404 response, and the store is
\* left as it was: the handler ends there.
C15_ForeignIsNotFound ==
  [][ \A r \in Requests :
        StartsById(r) =>
          LET entity == Addressed(req'[r].route, req'[r].id)
              absent == entity = Undefined
              foreign == IF absent THEN FALSE ELSE entity.user_id # req'[r].user
          IN (absent \/ foreign) =>
               /\ pc'[r] = "done"
               /\ resp'[r] = [status |-> 404]
               /\ store' = store
    ]_vars

\* The registered user has asked to delete a connection of the admin and
\* got 404; the connection and its feed are still stored.
C15_Witness ==
  /\ pc["r1"] = "done"
  /\ req["r1"].route = "DELETE /api/connections/:id"
  /\ req["r1"].user = 2
  /\ req["r1"].id = 1
  /\ resp["r1"].status = 404
  /\ 1 \in DOMAIN connections
  /\ connections[1].user_id = 1
  /\ \E id \in DOMAIN feeds : feeds[id].connection_id = 1

\* The routes that create or update a feed or a connection.
WriteRoutes ==
  {"POST /api/connections", "POST /api/feeds",
   "PATCH /api/connections/:id", "PATCH /api/feeds/:id"}

\* The fields a caller has to supply to create a connection, and a feed.
ConnectionFields == {"name", "url", "token", "status", "icon"}
FeedFields == {"name", "full_text", "separator", "connection_id", "frequency"}

\* The payload lacks a required field or holds a value of the wrong type.
Malformed(route, body) ==
  \/ \E k \in TextKeys \cap DOMAIN body : body[k] = JsonNumber
  \/ route = "POST /api/connections" /\ ~(ConnectionFields \subseteq DOMAIN body)
  \/ route = "POST /api/feeds" /\ ~(FeedFields \subseteq DOMAIN body)

\* C16: a create or update request for a feed or a connection with a
\* malformed payload never changes the store or its counters, and is
\* answered 400 (an update of an entity that is not the caller's: 404).
C16_MalformedRejected ==
  [][ \A r \in Requests :
        (Steps(r) /\ pc'[r] # "idle" /\ req'[r].route \in WriteRoutes
           /\ Malformed(req'[r].route, req'[r].body)) =>
          /\ store' = store
          /\ pc'[r] = "done" =>
               \/ resp'[r].status = 400
               \/ /\ resp'[r].status = 404
                  /\ req'[r].route \notin {"POST /api/connections", "POST /api/feeds"}
    ]_vars

\* The stored feeds and connections of user u.
FeedsOf(u) == { id \in DOMAIN feeds : feeds[id].user_id = u }
ConnectionsOf(u) == { id \in DOMAIN connections : connections[id].user_id = u }

\* The sum of num_sent over a set of stored feeds.
RECURSIVE Delivered(_)
Delivered(ids) ==
  IF ids = {} THEN 0
  ELSE LET id == CHOOSE x \in ids : TRUE
       IN feeds[id].num_sent + Delivered(ids \ {id})

\* A step of GET /api/stats for a logged-in user.
StatsStep(r) ==
  /\ Steps(r)
  /\ pc[r] \in {"idle", "stats"}
  /\ req'[r].route = "GET /api/stats"
  /\ req'[r].user # NoUser

\* C17: GET /api/stats for user u answers with the number of u's stored
\* feeds that are active, the number of u's stored connections and the sum
\* of num_sent over u's stored feeds, and changes nothing in the store.
C17_StatsPerOwner ==
  [][ \A r \in Requests :
        StatsStep(r) =>
          /\ store' = store
          /\ pc'[r] = "done" =>
               LET u == req'[r].user
               IN resp'[r] =
                    [status |-> 200,
                     body |->
                       [activeFeeds |->
                          Cardinality({ id \in FeedsOf(u) : feeds[id].active }),
                        connectedApps |-> Cardinality(ConnectionsOf(u)),
                        contentDelivered |-> Delivered(FeedsOf(u))]]
    ]_vars

\* The admin has got stats that count the one feed and the one connection
\* that are the admin's, while an active feed with content delivered and a
\* connection of the other user are stored.
C17_Witness ==
  /\ pc["r1"] = "done"
  /\ req["r1"].route = "GET /api/stats"
  /\ req["r1"].user = 1
  /\ resp["r1"].status = 200
  /\ resp["r1"].body
       = [activeFeeds |-> 1, connectedApps |-> 1, contentDelivered |-> 0]
  /\ \E id \in FeedsOf(2) : feeds[id].active /\ feeds[id].num_sent = 1
  /\ ConnectionsOf(2) # {}

\* The request r is answered in one step, on this route, with this status.
Answers(r, route, status) ==
  /\ pc[r] = "idle"
  /\ pc'[r] = "done"
  /\ req'[r].route = route
  /\ resp'[r].status = status

\* The fields of the record agree with the fields handed to the create,
\* but for id and created_at.
AsGiven(record, fields) ==
  \A k \in DOMAIN fields \ {"id", "created_at"} :
    k \in DOMAIN record /\ record[k] = fields[k]

\* C18: for users, connections and feeds, the entity a create stores under
\* the id it returns is the entity it returns and has every field handed to
\* the create, id and created_at apart; and a get-by-id returns the entity
\* stored under the id.  So a get-by-id right after the create returns the
\* created entity.
C18_CreateThenGet ==
  [][ /\ userId' # userId =>
           /\ userId \notin DOMAIN users
           /\ userId \in DOMAIN users'
           /\ \E insertUser \in InsertUsers : AsGiven(users'[userId], insertUser)
      /\ \A r \in Requests :
           /\ Answers(r, "POST /api/connections", 201) =>
                LET fields == ParseData(ConnectionParseInput(req'[r].body, req'[r].user),
                                        InsertConnectionKeys)
                    id == resp'[r].body.id
                IN /\ id \notin DOMAIN connections
                   /\ MapGet(connections', id) = resp'[r].body
                   /\ AsGiven(resp'[r].body, fields)
           /\ Answers(r, "POST /api/feeds", 201) =>
                LET fields == ParseData(FeedParseInput(req'[r].body, req'[r].user),
                                        InsertFeedKeys)
                    id == resp'[r].body.id
                IN /\ id \notin DOMAIN feeds
                   /\ MapGet(feeds', id) = resp'[r].body
                   /\ AsGiven(resp'[r].body, fields)
           /\ Answers(r, "GET /api/connections/:id", 200) =>
                resp'[r].body = MapGet(connections, req'[r].id)
           /\ Answers(r, "GET /api/feeds/:id", 200) =>
                resp'[r].body = MapGet(feeds, req'[r].id)
    ]_vars

\* The registered user has created a connection and a feed and has got the
\* feed by its id.
C18_Witness ==
  /\ pc["r1"] = "done"
  /\ req["r1"].route = "GET /api/feeds/:id"
  /\ req["r1"].user = 2
  /\ resp["r1"].status = 200
  /\ resp["r1"].body = feeds[req["r1"].id]
  /\ resp["r1"].body.full_text = SampleText
  /\ resp["r1"].body.user_id = 2
  /\ ConnectionsOf(2) # {}

\* The PATCH of r updates a stored feed with a body that supplies one of
\* full_text and separator without the other.
PatchOfOneOfTwo(r) ==
  /\ pc[r] = "found"
  /\ req[r].route = "PATCH /api/feeds/:id"
  /\ Steps(r)
  /\ req[r].id \in DOMAIN feeds
  /\ ("full_text" \in DOMAIN req[r].body) # ("separator" \in DOMAIN req[r].body)

\* The one of full_text and separator that the body supplies is stored.
SuppliedIsStored(r) ==
  \A k \in {"full_text", "separator"} \cap DOMAIN req[r].body :
    feeds'[req[r].id][k] = req[r].body[k]

\* C19 as stated: a PATCH that supplies full_text without separator, or
\* separator without full_text, leaves the feed's contents as it was and
\* stores the new full_text or separator.
C19_ContentsLeftStaleAsStated ==
  [][ \A r \in Requests :
        PatchOfOneOfTwo(r) =>
          /\ feeds'[req[r].id].contents = feeds[req[r].id].contents
          /\ SuppliedIsStored(r)
    ]_vars

\* C19, amended: such a PATCH does not split again; the feed's contents is
\* as it was unless the body carries a contents of its own, which is then
\* stored as sent; the new full_text or separator is stored.
C19_ContentsLeftStale ==
  [][ \A r \in Requests :
        PatchOfOneOfTwo(r) =>
          /\ feeds'[req[r].id].contents =
               IF "contents" \in DOMAIN req[r].body
                 THEN req[r].body.contents
                 ELSE feeds[req[r].id].contents
          /\ SuppliedIsStored(r)
    ]_vars

\* A feed split from 'a,b' has got the full_text 'c' and still has the
\* contents a, b.
C19_Witness ==
  /\ pc["r1"] = "done"
  /\ req["r1"].route = "PATCH /api/feeds/:id"
  /\ req["r1"].body = [full_text |-> << "c" >>]
  /\ resp["r1"].status = 200
  /\ feeds[1].full_text = << "c" >>
  /\ feeds[1].separator = SepComma
  /\ feeds[1].contents = << << "a" >>, << "b" >> >>

\* C20: a request without an authenticated user, on any route under
\* /api/connections, /api/feeds and /api/stats, is answered 401 with nothing
\* of the store in the answer, in one step, and the store and its counters
\* are as they were.
C20_UnauthenticatedIs401 ==
  [][ \A r \in Requests :
        (pc[r] = "idle" /\ pc'[r] # "idle" /\ req'[r].user = NoUser) =>
          /\ req'[r].route \in AllRoutes
          /\ pc'[r] = "done"
          /\ resp'[r] = [status |-> 401]
          /\ store' = store
    ]_vars

\* A caller who is not logged in has asked to delete a feed, and one to list
\* the feeds would be answered the same: the feeds are stored still.
C20_Witness ==
  /\ pc["r1"] = "done"
  /\ req["r1"] = [route |-> "DELETE /api/feeds/:id", user |-> NoUser]
  /\ resp["r1"] = [status |-> 401]
  /\ DOMAIN feeds = {1, 2}
  /\ DOMAIN connections # {}

\* C21: every stored feed's connection_id is the id of a stored connection.
C21_ReferentialIntegrity ==
  \A id \in DOMAIN feeds : feeds[id].connection_id \in DOMAIN connections

PatchesCompleted(r, id) ==
  /\ pc[r] = "found"
  /\ req[r].route = "PATCH /api/feeds/:id"
  /\ Steps(r)
  /\ req[r].id = id
  /\ "completed_contents" \in DOMAIN req[r].body

SplitByDialog(feed) ==
  feed.contents = splitContent(feed.full_text, feed.separator)

\* C30: for every stored feed whose contents was produced by splitContent,
\* splitting the text the edit dialog rebuilds from it gives back its
\* contents.
C30_EditRoundTrip ==
  \A id \in DOMAIN feeds :
    SplitByDialog(feeds[id]) =>
      splitContent(reconstructFullText(feeds[id]), feeds[id].separator)
        = feeds[id].contents

\* The round trip holds for the separators other than the dashes.
EditRoundTripButDashes ==
  \A id \in DOMAIN feeds :
    SplitByDialog(feeds[id]) /\ feeds[id].separator # SepDashes =>
      splitContent(reconstructFullText(feeds[id]), feeds[id].separator)
        = feeds[id].contents

\* C23: the status of every stored connection is "Connected" or
\* "Disconnected".
C23_StatusIsOneOfTwo ==
  \A id \in DOMAIN connections : connections[id].status \in Statuses

\* The card's toggle of a connection whose status is one of the two stores
\* the other one.
CardToggleFlips ==
  [][ \A r \in Requests :
        /\ pc[r] = "found"
        /\ Steps(r)
        /\ req[r].route = "PATCH /api/connections/:id"
        /\ req[r].id \in DOMAIN connections
        /\ connections[req[r].id].status \in Statuses
        /\ req[r].body = CardToggleBody(connections[req[r].id])
        => /\ connections'[req[r].id].status \in Statuses
           /\ connections'[req[r].id].status # connections[req[r].id].status
    ]_vars

\* C24: every completed toggle flips the feed's active, also when another
\* toggle of the feed is in flight: k completed toggles flip it k times.
C24_NoLostToggle ==
  [][ \A r \in Requests :
        ToggleOfStored(r) => feeds'[req[r].id].active = ~feeds[req[r].id].active
    ]_vars

\* C27: every PATCH and every toggle that has ended answered 200 with the
\* entity or 404, also when a DELETE of the entity ran between its lookup
\* and its update.
C27_UpdateEndsInSuccessOrNotFound ==
  \A r \in Requests :
    pc[r] = "done" /\ req[r].route \in UpdateRoutes \cup {"PATCH /api/feeds/:id/toggle"}
      => \/ resp[r].status = 404
         \/ resp[r].status = 200 /\ "body" \in DOMAIN resp[r]

\* No update and no toggle stores an entity that is not stored when it runs.
DeletedStaysDeleted ==
  [][ \A r \in Requests :
        pc[r] = "found" /\ Steps(r)
          /\ req[r].route \in UpdateRoutes \cup {"PATCH /api/feeds/:id/toggle"}
          => /\ DOMAIN feeds' \subseteq DOMAIN feeds
             /\ DOMAIN connections' \subseteq DOMAIN connections
    ]_vars

\* The user whose request r takes the step.
Actor(r) == IF pc[r] = "idle" THEN req'[r].user ELSE req[r].user

\* C25: a step of a request made by a user leaves every feed and connection
\* of another user stored and as it was, and stores no new entity of
\* another user.
C25_CrossUserIsolation ==
  [][ \A r \in Requests :
        Steps(r) /\ store' # store =>
          /\ \A id \in DOMAIN feeds :
               feeds[id].user_id # Actor(r) =>
                 id \in DOMAIN feeds' /\ feeds'[id] = feeds[id]
          /\ \A id \in DOMAIN connections :
               connections[id].user_id # Actor(r) =>
                 id \in DOMAIN connections' /\ connections'[id] = connections[id]
          /\ \A id \in DOMAIN feeds' \ DOMAIN feeds : feeds'[id].user_id = Actor(r)
          /\ \A id \in DOMAIN connections' \ DOMAIN connections :
               connections'[id].user_id = Actor(r)
    ]_vars

\* C26: every stored feed and connection is stored under its id, and no
\* step changes the user_id of a stored feed or connection.
C26_IdentityFieldsKept ==
  [][ /\ \A id \in DOMAIN feeds' : feeds'[id].id = id
      /\ \A id \in DOMAIN connections' : connections'[id].id = id
      /\ \A id \in DOMAIN feeds \cap DOMAIN feeds' :
           feeds'[id].user_id = feeds[id].user_id
      /\ \A id \in DOMAIN connections \cap DOMAIN connections' :
           connections'[id].user_id = connections[id].user_id
    ]_vars

\* Every stored feed and connection is stored under its id.
StoredUnderId ==
  /\ \A id \in DOMAIN feeds : feeds[id].id = id
  /\ \A id \in DOMAIN connections : connections[id].id = id

\* The dialog hands a create request to createConnectionMutation.
Submits == modal.creating = NoCreate /\ modal'.creating # NoCreate

\* C28: the dialog sends a connection of the selected type to POST
\* /api/connections only if a test of that type has succeeded since the type
\* was last selected.
C28_CreateOnlyAfterTestOfSelection ==
  [][ Submits => modal.sinceSelected ]_vars

\* C29: once reset (testStatus idle, testMessage empty) the dialog keeps its
\* testStatus idle and its testMessage empty until a test is started.
C29_ResetForGood ==
  [][ modal.testStatus = "idle" /\ modal.testMessage = ""
        => \/ modal'.testStatus = "idle" /\ modal'.testMessage = ""
           \/ modal'.testStatus = "testing" /\ modal.test = NoTest
    ]_vars

TypeOK ==
  /\ DOMAIN feeds \subseteq FeedIds
  /\ DOMAIN connections \subseteq ConnectionIds
  /\ \A id \in DOMAIN feeds : feeds[id].id = id

====
